---- MODULE Spec2Model ----
(***************************************************************************)
(* Model of streamlit_app.py: the probe coroutine `fetch`, the orchestrator *)
(* `run_search` and the part of the main execution block that loads the    *)
(* catalog, calls run_search and reports.                                   *)
(*                                                                          *)
(* Strings are sequences of symbols (a symbol stands for a fragment of      *)
(* text), so that formatting, substring search and string equality are      *)
(* computed and not assumed.  Python's None is the string "None".           *)
(***************************************************************************)
EXTENDS Integers, Sequences, FiniteSets, TLC

VARIABLES
    target_username,  \* main: the text input
    search_mode,      \* main: "Fast" or "Deep"
    sites_df,         \* main: the catalog as downloaded, in catalog order
    net,              \* the network: what site i answers (fixed for a scan)
    pc,               \* position of main/run_search
    sites_data,       \* main: the catalog handed to run_search
    tasks,            \* run_search: the coroutines created, by catalog index
    tpc,              \* position of each fetch task
    events,           \* what each fetch task did, in order
    outcome,          \* what each fetch task returned
    doneq,            \* as_completed: finished tasks not yet awaited
    awaited,          \* the tasks run_search has awaited, in that order
    results,          \* run_search: results
    completed,        \* run_search: completed
    total,            \* run_search: total
    progress,         \* the values the progress bar was given, in order
    report            \* main: what was shown after the scan

vars == <<target_username, search_mode, sites_df, net, pc, sites_data, tasks,
          tpc, events, outcome, doneq, awaited, results, completed, total, progress,
          report>>

----------------------------------------------------------------------------
(* Program constants.  The source sets the connection limit to 50 and the  *)
(* slice to 200; the model scales both down (keeping limit < slice) so that *)
(* catalogs longer than either are within reach of exhaustive checking.     *)
(* Nothing below reads these values except in comparisons with counts.      *)

MAX_CONCURRENT_REQUESTS == 2
TOP_SITES == 3

(* Bound of the model: the longest catalog drawn in Init. *)
MaxSites == 4

(* Bound of the model: the longest catalog of the scans whose every state  *)
(* is checked against the invariants of run_search.                        *)
MaxScanSites == 3

(* Bound of the model: the longest catalog of the specification with fairness. *)
MaxFairSites == 3

None == "None"

----------------------------------------------------------------------------
(* Strings *)

\* s[1..n], as Python's s[:n] on a list
Take(s, n) == SubSeq(s, 1, IF n < Len(s) THEN n ELSE Len(s))

\* whether t starts with m at offset k (0-based)
MatchAt(m, t, k) ==
    /\ k + Len(m) <= Len(t)
    /\ \A j \in 1..Len(m) : t[k + j] = m[j]

\* Python's `m in t` for two str: scan the offsets left to right
RECURSIVE ScanFrom(_, _, _)
ScanFrom(m, t, k) ==
    IF k + Len(m) > Len(t) THEN FALSE
    ELSE IF MatchAt(m, t, k) THEN TRUE
    ELSE ScanFrom(m, t, k + 1)

\* mutant: only the start of the text is compared
ContainsAtStart(m, t) == MatchAt(m, t, 0)

Contains(m, t) == ScanFrom(m, t, 0)

\* str.format(username) on a template: "{}" is replaced by the argument,
\* "{1}" names a positional argument that was not passed (IndexError)
FormatRaises(tpl) == \E k \in 1..Len(tpl) : tpl[k] = "{1}"

Format(tpl, username) ==
    [k \in 1..Len(tpl) |-> IF tpl[k] = "{}" THEN username ELSE tpl[k]]

----------------------------------------------------------------------------
(* Inputs: descriptors (one column of the catalog) and what a site answers *)

Marker == <<"User", "not", "found">>
UrlTemplate == <<"https://a.test/", "{}">>

Descriptor(hasUrl, url, errorType, hasMsg, errorMsg) ==
    [hasUrl |-> hasUrl, url |-> url, errorType |-> errorType,
     hasMsg |-> hasMsg, errorMsg |-> errorMsg]

Response(reachable, status, decodable, text, redirect) ==
    [reachable |-> reachable, status |-> status, decodable |-> decodable,
     text |-> text, redirect |-> redirect]

\* str(response.url) for a request of `url`: the site answers at the same
\* URL, at the URL with a trailing slash, or redirects to a generic page
FinalUrl(url, redirect) ==
    IF redirect = "same" THEN url
    ELSE IF redirect = "slash" THEN Append(url, "/")
    ELSE <<"https://a.test/", "login">>

Usernames == {"alice", "bob"}
Statuses == {200, 301, 403, 404, 500}
Bodies == { <<"Hello">>,
            <<"User", "not", "found">>,
            <<"Error", ":", "User", "not", "found", "!">>,
            <<"User", "not", "here", "found">> }
Redirects == {"same", "slash", "login"}

WellFormed ==
    { Descriptor(TRUE, UrlTemplate, "status_code", FALSE, <<>>),
      Descriptor(TRUE, UrlTemplate, "response_url", FALSE, <<>>),
      Descriptor(TRUE, UrlTemplate, None, FALSE, <<>>),
      Descriptor(TRUE, UrlTemplate, "unknown", FALSE, <<>>),
      Descriptor(TRUE, UrlTemplate, "message", TRUE, Marker),
      Descriptor(TRUE, UrlTemplate, "message", TRUE, <<>>),
      Descriptor(TRUE, UrlTemplate, "message", FALSE, <<>>) }

Malformed ==
    { Descriptor(FALSE, <<>>, "status_code", FALSE, <<>>),
      Descriptor(TRUE, <<"https://a.test/", "{1}">>, "status_code", FALSE, <<>>) }

Unreachable == Response(FALSE, 0, FALSE, <<>>, "same")

Responses ==
    {Unreachable} \cup
    { Response(TRUE, st, dec, txt, red) :
        st \in Statuses, dec \in {TRUE}, txt \in Bodies, red \in Redirects } \cup
    { Response(TRUE, st, FALSE, <<>>, red) : st \in {200, 404}, red \in Redirects }

\* every site a single probe can meet
ProbeSites ==
    { <<d, r>> : d \in WellFormed, r \in Responses } \cup
    { <<d, Unreachable>> : d \in Malformed }

\* the sites of the scans: a match, a no-match, a dead host, a bad descriptor
ScanSites ==
    { <<Descriptor(TRUE, UrlTemplate, "status_code", FALSE, <<>>),
        Response(TRUE, 200, TRUE, <<"Hello">>, "same")>>,
      <<Descriptor(TRUE, UrlTemplate, "message", TRUE, Marker),
        Response(TRUE, 200, TRUE, Marker, "same")>>,
      <<Descriptor(TRUE, UrlTemplate, "response_url", FALSE, <<>>), Unreachable>>,
      <<Descriptor(FALSE, <<>>, "status_code", FALSE, <<>>), Unreachable>> }

\* catalogs of 0..n sites, as sequences of <<descriptor, response>>
Catalogs(S, n) == UNION { [1..k -> S] : k \in 0..n }

----------------------------------------------------------------------------
(* fetch, lines 40-73 *)

\* line 41: site_data["url"].format(username) raises (KeyError, IndexError)
UrlRaises(d) == ~d.hasUrl \/ FormatRaises(d.url)

ProbeUrl(d, username) == Format(d.url, username)

\* line 57: `None in text` raises TypeError
RuleRaises(d) == d.errorType = "message" /\ ~d.hasMsg

\* mutant: the status rule accepts 200 alone
ExistsOnly200(d, r, url) ==
    IF d.errorType = "status_code" THEN r.status = 200
    ELSE IF d.errorType = "message" THEN ~Contains(d.errorMsg, r.text)
    ELSE IF d.errorType = "response_url" THEN FinalUrl(url, r.redirect) = url
    ELSE FALSE

\* mutant: the URL rule ignores a trailing slash
ExistsSlashNormalised(d, r, url) ==
    IF d.errorType = "status_code" THEN r.status # 404
    ELSE IF d.errorType = "message" THEN ~Contains(d.errorMsg, r.text)
    ELSE IF d.errorType = "response_url"
      THEN FinalUrl(url, r.redirect) \in {url, Append(url, "/")}
    ELSE FALSE

\* mutant: a descriptor with no known rule counts as a match
ExistsByDefault(d, r, url) ==
    IF d.errorType = "status_code" THEN r.status # 404
    ELSE IF d.errorType = "message" THEN ~Contains(d.errorMsg, r.text)
    ELSE IF d.errorType = "response_url" THEN FinalUrl(url, r.redirect) = url
    ELSE TRUE

\* lines 52-61: exists
Exists(d, r, url) ==
    IF d.errorType = "status_code" THEN r.status # 404
    ELSE IF d.errorType = "message" THEN ~Contains(d.errorMsg, r.text)
    ELSE IF d.errorType = "response_url" THEN FinalUrl(url, r.redirect) = url
    ELSE FALSE

\* lines 64-70: the dict returned for a match; latency is the value taken
\* at line 47, when the response head arrived
FoundRecord(site_name, url) ==
    [site |-> site_name, url |-> url, status |-> "Found",
     latency_ms |-> "start_to_head", category |-> "Social"]

Pending == [kind |-> "pending", value |-> <<>>]
Returned(v) == [kind |-> "returned", value |-> v]
Raised == [kind |-> "raised", value |-> <<>>]

\* number of connections the connector has handed out (TCPConnector limit)
Conns == Cardinality({i \in DOMAIN tpc : tpc[i] \in {"connected", "reading"}})

\* a task ends: its result is set and as_completed queues it
Finish(i, ev, out) ==
    /\ tpc' = [tpc EXCEPT ![i] = "done"]
    /\ events' = [events EXCEPT ![i] = @ \o ev]
    /\ outcome' = [outcome EXCEPT ![i] = out]
    /\ doneq' = Append(doneq, i)

Step(i, to, ev) ==
    /\ tpc' = [tpc EXCEPT ![i] = to]
    /\ events' = [events EXCEPT ![i] = @ \o ev]
    /\ UNCHANGED <<outcome, doneq>>

Fixed == <<target_username, search_mode, sites_df, net>>
Orchestrator == <<pc, sites_data, tasks, awaited, results, completed, total, progress,
                  report>>

\* line 46: the connector admits the request (a free connection slot)
Acquire(i) ==
    /\ pc = "loop" /\ tpc[i] = "requesting"
    /\ Conns < MAX_CONCURRENT_REQUESTS
    /\ Step(i, "connected", <<"connect">>)
    /\ UNCHANGED <<Fixed, Orchestrator>>

\* mutant: the failure of the request is not caught
NetworkErrorUncaught(i) ==
    /\ pc = "loop" /\ tpc[i] = "connected"
    /\ ~net[tasks[i]].reachable
    /\ Finish(i, <<"neterror">>, Raised)
    /\ UNCHANGED <<Fixed, Orchestrator>>

\* line 46: the connection or the request fails; line 71 swallows it
NetworkError(i) ==
    /\ pc = "loop" /\ tpc[i] = "connected"
    /\ ~net[tasks[i]].reachable
    /\ Finish(i, <<"neterror", "except", "return_none">>, Returned(<<>>))
    /\ UNCHANGED <<Fixed, Orchestrator>>

\* mutant: the elapsed time is computed before the response has arrived
HeadersLatencyFirst(i) ==
    /\ pc = "loop" /\ tpc[i] = "connected"
    /\ net[tasks[i]].reachable
    /\ Step(i, "reading", <<"latency", "response", "status">>)
    /\ UNCHANGED <<Fixed, Orchestrator>>

\* lines 46-48: the response head arrives; latency and status are taken
Headers(i) ==
    /\ pc = "loop" /\ tpc[i] = "connected"
    /\ net[tasks[i]].reachable
    /\ Step(i, "reading", <<"response", "latency", "status">>)
    /\ UNCHANGED <<Fixed, Orchestrator>>

\* mutant: the record is returned whatever the rule says
BodyAlwaysFound(i) ==
    LET d == sites_data[tasks[i]]
        r == net[tasks[i]]
        url == ProbeUrl(d, target_username)
    IN  /\ pc = "loop" /\ tpc[i] = "reading"
        /\ IF ~r.decodable
             THEN Finish(i, <<"text_raised", "except", "return_none">>, Returned(<<>>))
           ELSE IF RuleRaises(d)
             THEN Finish(i, <<"text", "rule_raised", "except", "return_none">>,
                         Returned(<<>>))
           ELSE Finish(i, <<"text", "rule", "return_found">>,
                       Returned(<<FoundRecord(tasks[i], url)>>))
        /\ UNCHANGED <<Fixed, Orchestrator>>

\* mutant: the rule is applied outside the try, its error is not caught
BodyRuleUncaught(i) ==
    LET d == sites_data[tasks[i]]
        r == net[tasks[i]]
        url == ProbeUrl(d, target_username)
    IN  /\ pc = "loop" /\ tpc[i] = "reading"
        /\ IF ~r.decodable
             THEN Finish(i, <<"text_raised", "except", "return_none">>, Returned(<<>>))
           ELSE IF RuleRaises(d)
             THEN Finish(i, <<"text", "rule_raised">>, Raised)
           ELSE IF Exists(d, r, url)
             THEN Finish(i, <<"text", "rule", "return_found">>,
                         Returned(<<FoundRecord(tasks[i], url)>>))
           ELSE Finish(i, <<"text", "rule", "return_none">>, Returned(<<>>))
        /\ UNCHANGED <<Fixed, Orchestrator>>

\* lines 49-73: the body is read and decoded, the rule applied
Body(i) ==
    LET d == sites_data[tasks[i]]
        r == net[tasks[i]]
        url == ProbeUrl(d, target_username)
    IN  /\ pc = "loop" /\ tpc[i] = "reading"
        /\ IF ~r.decodable
             THEN Finish(i, <<"text_raised", "except", "return_none">>, Returned(<<>>))
           ELSE IF RuleRaises(d)
             THEN Finish(i, <<"text", "rule_raised", "except", "return_none">>,
                         Returned(<<>>))
           ELSE IF Exists(d, r, url)
             THEN Finish(i, <<"text", "rule", "return_found">>,
                         Returned(<<FoundRecord(tasks[i], url)>>))
           ELSE Finish(i, <<"text", "rule", "return_none">>, Returned(<<>>))
        /\ UNCHANGED <<Fixed, Orchestrator>>

\* line 46: TIMEOUT_SECONDS elapse while the request waits for a slot, for
\* the response or for the body; line 71 swallows the TimeoutError.  The
\* trace notes a timeout that hits a request queued behind a full pool.
Timeout(i) ==
    /\ pc = "loop" /\ tpc[i] \in {"requesting", "connected", "reading"}
    /\ Finish(i,
              IF tpc[i] = "requesting" /\ Conns >= MAX_CONCURRENT_REQUESTS
                THEN <<"pool_full", "timeout", "except", "return_none">>
                ELSE <<"timeout", "except", "return_none">>,
              Returned(<<>>))
    /\ UNCHANGED <<Fixed, Orchestrator>>

----------------------------------------------------------------------------
(* main execution, lines 124-128: the catalog handed to run_search *)

LoadData ==
    /\ pc = "load"
    /\ sites_data' = IF search_mode = "Fast" THEN Take(sites_df, TOP_SITES)
                     ELSE sites_df
    /\ pc' = "run_search"
    /\ UNCHANGED <<Fixed, tasks, tpc, events, outcome, doneq, awaited, results,
                   completed, total, progress, report>>

(* run_search, lines 75-96 *)

\* lines 76-87: one coroutine per item of the slice, the bar at 0
CreateTasks ==
    /\ pc = "run_search"
    /\ LET n == Len(Take(sites_data, TOP_SITES))
       IN  /\ tasks' = [i \in 1..n |-> i]
           /\ tpc' = [i \in 1..n |-> "pending"]
           /\ events' = [i \in 1..n |-> <<>>]
           /\ outcome' = [i \in 1..n |-> Pending]
           /\ total' = n
    /\ results' = <<>>
    /\ completed' = 0
    /\ progress' = <<[num |-> 0, den |-> 1]>>
    /\ doneq' = <<>>
    /\ awaited' = <<>>
    /\ pc' = "as_completed"
    /\ UNCHANGED <<Fixed, sites_data, report>>

\* the orders in which the tasks of a set can finish
Orders(S) == { q \in [1..Cardinality(S) -> S] :
                 \A a, b \in 1..Cardinality(S) : a # b => q[a] # q[b] }

\* line 89: as_completed schedules every task and run_search awaits; the
\* event loop runs each task up to its first suspension before anything
\* else.  A task whose line 41 raises is finished there with the exception;
\* every other task is inside session.get.
StartTasks ==
    /\ pc = "as_completed"
    /\ LET bad == {i \in DOMAIN tasks : UrlRaises(sites_data[tasks[i]])}
       IN  /\ tpc' = [i \in DOMAIN tasks |-> IF i \in bad THEN "done" ELSE "requesting"]
           /\ events' = [i \in DOMAIN tasks |->
                           IF i \in bad THEN <<"format_raised">>
                           ELSE <<"format", "start_time", "get">>]
           /\ outcome' = [i \in DOMAIN tasks |-> IF i \in bad THEN Raised ELSE Pending]
           /\ \E q \in Orders(bad) : doneq' = q
    /\ pc' = "loop"
    /\ UNCHANGED <<Fixed, sites_data, tasks, awaited, results, completed, total,
                   progress, report>>

\* mutant: the counter and the bar move only for a match
ConsumeTickOnMatch ==
    /\ pc = "loop" /\ doneq # <<>>
    /\ LET result == outcome[Head(doneq)]
       IN  IF result.kind = "raised"
             THEN /\ pc' = "raised"
                  /\ UNCHANGED <<results, completed, progress>>
             ELSE IF result.value # <<>>
               THEN /\ results' = Append(results, result.value[1])
                    /\ completed' = completed + 1
                    /\ progress' = Append(progress,
                                          [num |-> completed + 1, den |-> total])
                    /\ pc' = pc
               ELSE UNCHANGED <<pc, results, completed, progress>>
    /\ doneq' = Tail(doneq)
    /\ awaited' = Append(awaited, Head(doneq))
    /\ UNCHANGED <<Fixed, sites_data, tasks, tpc, events, outcome, total, report>>

\* mutant: a match is inserted at its place in catalog order
ConsumeInCatalogOrder ==
    /\ pc = "loop" /\ doneq # <<>>
    /\ LET result == outcome[Head(doneq)]
       IN  IF result.kind = "raised"
             THEN /\ pc' = "raised"
                  /\ UNCHANGED <<results, completed, progress>>
             ELSE /\ results' =
                       IF result.value # <<>>
                         THEN LET rec == result.value[1]
                                  Lower(x) == x.site < rec.site
                                  Higher(x) == x.site > rec.site
                              IN  SelectSeq(results, Lower) \o <<rec>>
                                    \o SelectSeq(results, Higher)
                         ELSE results
                  /\ completed' = completed + 1
                  /\ progress' = Append(progress, [num |-> completed + 1, den |-> total])
                  /\ pc' = pc
    /\ doneq' = Tail(doneq)
    /\ awaited' = Append(awaited, Head(doneq))
    /\ UNCHANGED <<Fixed, sites_data, tasks, tpc, events, outcome, total, report>>

\* mutant: completed is counted in the branch of the non-matches only
ConsumeCountMisses ==
    /\ pc = "loop" /\ doneq # <<>>
    /\ LET result == outcome[Head(doneq)]
       IN  IF result.kind = "raised"
             THEN /\ pc' = "raised"
                  /\ UNCHANGED <<results, completed, progress>>
             ELSE IF result.value # <<>>
               THEN /\ results' = Append(results, result.value[1])
                    /\ UNCHANGED <<pc, completed, progress>>
               ELSE /\ completed' = completed + 1
                    /\ progress' = Append(progress,
                                          [num |-> completed + 1, den |-> total])
                    /\ UNCHANGED <<pc, results>>
    /\ doneq' = Tail(doneq)
    /\ awaited' = Append(awaited, Head(doneq))
    /\ UNCHANGED <<Fixed, sites_data, tasks, tpc, events, outcome, total, report>>

\* lines 90-94: one iteration of the loop over as_completed
Consume ==
    /\ pc = "loop" /\ doneq # <<>>
    /\ LET result == outcome[Head(doneq)]
       IN  IF result.kind = "raised"
             THEN /\ pc' = "raised"
                  /\ UNCHANGED <<results, completed, progress>>
             ELSE /\ results' = IF result.value # <<>>
                                  THEN Append(results, result.value[1])
                                  ELSE results
                  /\ completed' = completed + 1
                  /\ progress' = Append(progress, [num |-> completed + 1, den |-> total])
                  /\ pc' = pc
    /\ doneq' = Tail(doneq)
    /\ awaited' = Append(awaited, Head(doneq))
    /\ UNCHANGED <<Fixed, sites_data, tasks, tpc, events, outcome, total, report>>

\* mutant: the loop is left at the first match
ReturnOnFirstMatch ==
    /\ pc = "loop"
    /\ \/ results # <<>>
       \/ (\A i \in DOMAIN tasks : tpc[i] = "done") /\ doneq = <<>>
    /\ pc' = "returned"
    /\ UNCHANGED <<Fixed, sites_data, tasks, tpc, events, outcome, doneq, awaited,
                   results, completed, total, progress, report>>

\* line 96: every future of as_completed has been awaited
Return ==
    /\ pc = "loop"
    /\ \A i \in DOMAIN tasks : tpc[i] = "done"
    /\ doneq = <<>>
    /\ pc' = "returned"
    /\ UNCHANGED <<Fixed, sites_data, tasks, tpc, events, outcome, doneq, awaited,
                   results, completed, total, progress, report>>

(* main execution, lines 135-178 *)

\* lines 139-175: the dashboard, or the warning when nothing matched
ShowResults ==
    /\ pc = "returned"
    /\ report' = IF results # <<>>
                   THEN [kind |-> "success", matches |-> Len(results),
                         coverage |-> Len(sites_data)]
                   ELSE [kind |-> "warning", matches |-> 0, coverage |-> 0]
    /\ pc' = "shown"
    /\ UNCHANGED <<Fixed, sites_data, tasks, tpc, events, outcome, doneq, awaited,
                   results, completed, total, progress>>

\* lines 177-178: an exception out of run_search ends in st.error
ShowError ==
    /\ pc = "raised"
    /\ report' = [kind |-> "error", matches |-> 0, coverage |-> 0]
    /\ pc' = "shown"
    /\ UNCHANGED <<Fixed, sites_data, tasks, tpc, events, outcome, doneq, awaited,
                   results, completed, total, progress>>

----------------------------------------------------------------------------
(* Specifications *)

InitWith(users, cat) ==
    /\ target_username \in users
    /\ search_mode \in {"Fast", "Deep"}
    /\ sites_df = [i \in DOMAIN cat |-> cat[i][1]]
    /\ net = [i \in DOMAIN cat |-> cat[i][2]]
    /\ pc = "load"
    /\ sites_data = <<>>
    /\ tasks = <<>>
    /\ tpc = <<>>
    /\ events = <<>>
    /\ outcome = <<>>
    /\ doneq = <<>>
    /\ awaited = <<>>
    /\ results = <<>>
    /\ completed = 0
    /\ total = 0
    /\ progress = <<>>
    /\ report = [kind |-> "none", matches |-> 0, coverage |-> 0]

\* a scan of a catalog of up to MaxSites sites
Init == \E cat \in Catalogs(ScanSites, MaxSites) : InitWith({"alice"}, cat)

\* a scan of one site, over every descriptor and every answer
InitProbe == \E s \in ProbeSites : InitWith(Usernames, <<s>>)

Next ==
    \/ LoadData
    \/ CreateTasks
    \/ StartTasks
    \/ \E i \in DOMAIN tasks : Acquire(i)
    \/ \E i \in DOMAIN tasks : NetworkError(i)
    \/ \E i \in DOMAIN tasks : Headers(i)
    \/ \E i \in DOMAIN tasks : Body(i)
    \/ \E i \in DOMAIN tasks : Timeout(i)
    \/ Consume
    \/ Return
    \/ ShowResults
    \/ ShowError

Spec == Init /\ [][Next]_vars

SpecProbe == InitProbe /\ [][Next]_vars

\* a scan of a catalog of up to MaxScanSites sites
InitScan == \E cat \in Catalogs(ScanSites, MaxScanSites) : InitWith({"alice"}, cat)

SpecScan == InitScan /\ [][Next]_vars

\* the event loop keeps running what is ready, and every pending request
\* gets its response, its error or its timeout
\* the sites of the scans under fairness: a match, a dead host, a bad descriptor
FairSites == { s \in ScanSites : s[1].errorType # "message" }

InitFair == \E cat \in Catalogs(FairSites, MaxFairSites) : InitWith({"alice"}, cat)

SpecFair == InitFair /\ [][Next]_vars /\ WF_vars(Next)

----------------------------------------------------------------------------
(* Vocabulary of the properties *)

Has(i, ev) == \E k \in DOMAIN events[i] : events[i][k] = ev

\* probes started and not yet completed
Active == {i \in DOMAIN tpc : tpc[i] \in {"requesting", "connected", "reading"}}

\* tasks whose completion run_search has awaited
Consumed == {awaited[k] : k \in DOMAIN awaited}

Created == pc \in {"as_completed", "loop", "returned", "raised", "shown"}

IsFound(i) == outcome[i].kind = "returned" /\ outcome[i].value # <<>>

\* m occurs in t as a run of consecutive symbols
Occurs(m, t) ==
    \E k \in 0..Len(t) : k + Len(m) <= Len(t) /\ SubSeq(t, k + 1, k + Len(m)) = m

\* no dispatched descriptor is malformed
DispatchWellFormed == \A i \in DOMAIN tasks : ~UrlRaises(sites_data[tasks[i]])

----------------------------------------------------------------------------
(* C1: the number of probes that are active (started and not completed) is *)
(* never above the concurrency cap.                                         *)
C1_ActiveWithinCap == Cardinality(Active) <= MAX_CONCURRENT_REQUESTS

(* C2: a probe that fails in the HTTP call (connection error, timeout,     *)
(* undecodable body) returns normally; a scan whose only failures are of    *)
(* that kind never raises and, once over, has completed == total with every *)
(* task finished.                                                            *)
C2_NetworkFaultIsolation ==
    /\ \A i \in DOMAIN tpc :
         (Has(i, "neterror") \/ Has(i, "timeout") \/ Has(i, "text_raised"))
            => outcome[i] = Returned(<<>>)
    /\ (Created /\ DispatchWellFormed) =>
         /\ pc # "raised" /\ report.kind # "error"
         /\ pc \in {"returned", "shown"} =>
              /\ completed = total
              /\ \A i \in DOMAIN tasks : outcome[i].kind = "returned"

C2_Witness ==
    /\ pc = "returned" /\ total >= 3 /\ completed = total
    /\ \E i, j, k \in DOMAIN tasks :
         Has(i, "neterror") /\ Has(j, "timeout") /\ IsFound(k)

(* C3: no failure of a single probe, a malformed descriptor included,      *)
(* leaves fetch as an exception or makes run_search raise.                  *)
C3_NoExceptionEscapes ==
    /\ \A i \in DOMAIN outcome : outcome[i].kind # "raised"
    /\ pc # "raised"
    /\ report.kind # "error"

(* C4: the progress bar gets one value per awaited completion; the values  *)
(* lie in [0, 1] and never decrease; when run_search returns from a scan of *)
(* N >= 1 descriptors the last value is 1 and N ticks were emitted.         *)
C4_Progress ==
    Created =>
      /\ Len(progress) = completed + 1
      /\ Cardinality({k \in DOMAIN awaited : outcome[awaited[k]].kind = "returned"})
           = completed
      /\ \A k \in DOMAIN progress :
           /\ progress[k].den > 0
           /\ 0 <= progress[k].num /\ progress[k].num <= progress[k].den
           /\ k > 1 => progress[k - 1].num * progress[k].den
                          <= progress[k].num * progress[k - 1].den
      /\ (pc = "returned" /\ total >= 1) =>
           /\ completed = total /\ total = Len(tasks)
           /\ Len(progress) = total + 1
           /\ progress[Len(progress)].num = progress[Len(progress)].den

C4_Witness ==
    /\ pc = "returned" /\ total >= 3
    /\ Len(results) >= 1 /\ Len(results) < total
    /\ \E i \in DOMAIN tasks : Has(i, "neterror")
    /\ \E i \in DOMAIN tasks : Has(i, "rule") /\ ~IsFound(i)

(* C5: run_search returns only after every dispatched descriptor has an    *)
(* outcome that was awaited, matches or not; and when every probe gets a    *)
(* response or times out, run_search eventually returns.                    *)
C5_Termination ==
    /\ [](pc = "returned" =>
            /\ \A i \in DOMAIN tasks : i \in Consumed /\ outcome[i].kind = "returned"
            /\ completed = Len(tasks))
    /\ ((pc = "loop" /\ DispatchWellFormed) ~> (pc = "returned"))

C5_Witness ==
    /\ pc = "returned" /\ total >= 3
    /\ IsFound(awaited[1]) /\ ~IsFound(awaited[2]) /\ Has(awaited[3], "timeout")

(* C6: one probe is created per descriptor handed to run_search, whatever  *)
(* the length of the catalog: total equals the length of the catalog.       *)
C6_OneProbePerDescriptor ==
    Created => /\ total = Len(sites_data)
               /\ Len(tasks) = Len(sites_data)

(* C7: for a status_code descriptor whose probe received a response, the   *)
(* verdict is Found exactly when the status is not 404.                     *)
C7_StatusCodeOnResponse ==
    \A i \in DOMAIN tpc :
        (tpc[i] = "done" /\ sites_data[tasks[i]].errorType = "status_code"
           /\ Has(i, "response"))
        => (IsFound(i) <=> net[tasks[i]].status # 404)

(* C7 as amended: for a status_code descriptor whose probe received a      *)
(* response and read and decoded its body, the verdict is Found exactly     *)
(* when the status is not 404, whatever the body and the final URL.         *)
C7_StatusCodeOnBodyRead ==
    \A i \in DOMAIN tpc :
        (tpc[i] = "done" /\ sites_data[tasks[i]].errorType = "status_code"
           /\ Has(i, "text"))
        => (IsFound(i) <=> net[tasks[i]].status # 404)

C7_Witness ==
    \E i \in DOMAIN tpc :
        /\ tpc[i] = "done" /\ sites_data[tasks[i]].errorType = "status_code"
        /\ Has(i, "text") /\ IsFound(i)
        /\ net[tasks[i]].status = 500 /\ net[tasks[i]].redirect = "login"
        /\ net[tasks[i]].text = Marker

(* C8: for a message descriptor with an errorMsg literal whose probe read  *)
(* the body, the verdict is Found exactly when errorMsg does not occur in   *)
(* the body text, whatever the status.                                       *)
C8_MessageRule ==
    \A i \in DOMAIN tpc :
        (tpc[i] = "done" /\ sites_data[tasks[i]].errorType = "message"
           /\ sites_data[tasks[i]].hasMsg /\ Has(i, "text"))
        => (IsFound(i) <=> ~Occurs(sites_data[tasks[i]].errorMsg, net[tasks[i]].text))

C8_Witness ==
    \E i \in DOMAIN tpc :
        /\ tpc[i] = "done" /\ sites_data[tasks[i]].errorType = "message"
        /\ sites_data[tasks[i]].errorMsg = Marker /\ Has(i, "text")
        /\ IsFound(i) /\ net[tasks[i]].status = 404
        /\ net[tasks[i]].text = <<"User", "not", "here", "found">>

(* C9: for a response_url descriptor whose probe received a response, the  *)
(* verdict is Found exactly when the final URL equals the constructed URL.  *)
C9_ResponseUrlOnResponse ==
    \A i \in DOMAIN tpc :
        (tpc[i] = "done" /\ sites_data[tasks[i]].errorType = "response_url"
           /\ Has(i, "response"))
        => (IsFound(i) <=>
              FinalUrl(ProbeUrl(sites_data[tasks[i]], target_username),
                       net[tasks[i]].redirect)
                = ProbeUrl(sites_data[tasks[i]], target_username))

(* C9 as amended: for a response_url descriptor whose probe received a     *)
(* response and read and decoded its body, the verdict is Found exactly     *)
(* when the final URL equals the constructed URL symbol for symbol,         *)
(* whatever the status.                                                      *)
C9_ResponseUrlOnBodyRead ==
    \A i \in DOMAIN tpc :
        (tpc[i] = "done" /\ sites_data[tasks[i]].errorType = "response_url"
           /\ Has(i, "text"))
        => (IsFound(i) <=>
              FinalUrl(ProbeUrl(sites_data[tasks[i]], target_username),
                       net[tasks[i]].redirect)
                = ProbeUrl(sites_data[tasks[i]], target_username))

C9_Witness ==
    \E i \in DOMAIN tpc :
        /\ tpc[i] = "done" /\ sites_data[tasks[i]].errorType = "response_url"
        /\ Has(i, "text")
        /\ IsFound(i) /\ net[tasks[i]].redirect = "same" /\ net[tasks[i]].status = 404

(* C10: the result list holds only records of probes whose verdict was     *)
(* Found, each for a submitted descriptor, and no site twice.               *)
C10_ResultsAreFound ==
    /\ \A k \in DOMAIN results :
         LET site == results[k].site
         IN  /\ site \in DOMAIN sites_data
             /\ site \in DOMAIN tasks /\ site \in Consumed
             /\ results[k].status = "Found"
             /\ outcome[site] = Returned(<<results[k]>>)
             /\ Has(site, "return_found")
             /\ ~RuleRaises(sites_data[site])
             /\ net[site].reachable /\ net[site].decodable
             /\ Exists(sites_data[site], net[site], results[k].url)
    /\ \A k, l \in DOMAIN results : k # l => results[k].site # results[l].site

C10_Witness ==
    /\ Len(results) = 2 /\ completed = 3
    /\ \E i \in Consumed : Has(i, "rule") /\ ~IsFound(i)


(* C11: a scan of an empty catalog returns without creating a probe, with  *)
(* an empty result list, and the last value given to the progress bar is 1. *)
C11_EmptyCatalog ==
    (pc = "returned" /\ Len(sites_data) = 0) =>
        /\ Len(tasks) = 0 /\ results = <<>>
        /\ progress # <<>>
        /\ progress[Len(progress)].num = progress[Len(progress)].den


\* the place of task i in the order in which run_search awaited the tasks
AwaitedAt(i) == CHOOSE k \in DOMAIN awaited : awaited[k] = i

(* C12: the records of the result list are in the order in which their     *)
(* probes' completions were awaited: A is before B in the list exactly when *)
(* A's completion was consumed before B's.                                   *)
C12_CompletionOrder ==
    /\ \A k \in DOMAIN results : results[k].site \in Consumed
    /\ \A i \in Consumed : IsFound(i) => \E k \in DOMAIN results : results[k].site = i
    /\ \A k, l \in DOMAIN results :
         (k < l) <=> (AwaitedAt(results[k].site) < AwaitedAt(results[l].site))

C12_Witness ==
    /\ Len(results) >= 2
    /\ results[1].site > results[2].site
    /\ AwaitedAt(results[1].site) < AwaitedAt(results[2].site)


\* what the site of task i answers makes it a match
Expected(i) ==
    LET d == sites_data[tasks[i]]
        r == net[tasks[i]]
    IN  /\ ~UrlRaises(d) /\ ~RuleRaises(d)
        /\ r.reachable /\ r.decodable
        /\ Exists(d, r, ProbeUrl(d, target_username))

FoundSites == {results[k].site : k \in DOMAIN results}

(* C13: the set of Found sites of a finished scan is determined by the     *)
(* username, the catalog and the sites' fixed answers, whatever the order   *)
(* of admissions and completions (so two runs of the same scan agree).      *)
(* The sites answer every admitted request: the only timeouts are those of  *)
(* requests still queued behind a full connection pool.                      *)
C13_SameFoundSet ==
    (/\ pc = "returned"
     /\ \A i \in DOMAIN tasks : Has(i, "timeout") => Has(i, "pool_full"))
    => FoundSites = {tasks[i] : i \in {j \in DOMAIN tasks : Expected(j)}}


\* the place of event ev in the trace of task i
EventAt(i, ev) == CHOOSE k \in DOMAIN events[i] : events[i][k] = ev

(* C14: in every probe that takes a latency the body has been read before  *)
(* the latency is taken, and a latency is taken only when a response was    *)
(* received.                                                                 *)
C14_LatencyAfterBody ==
    \A i \in DOMAIN events :
        Has(i, "latency") =>
            /\ Has(i, "response") /\ EventAt(i, "response") < EventAt(i, "latency")
            /\ Has(i, "text") /\ EventAt(i, "text") < EventAt(i, "latency")

(* C14 as amended: the latency is taken when the response head has arrived *)
(* and before the body is read: in every probe the start of the request     *)
(* precedes the response, the response precedes the latency capture and the *)
(* latency capture precedes the body-read event; every match carries a      *)
(* latency, and a latency is taken only when a response was received.       *)
C14_LatencyAtHead ==
    \A i \in DOMAIN events :
        /\ Has(i, "latency") =>
             /\ Has(i, "start_time") /\ Has(i, "response")
             /\ EventAt(i, "start_time") < EventAt(i, "response")
             /\ EventAt(i, "response") < EventAt(i, "latency")
        /\ (Has(i, "text") \/ Has(i, "text_raised")) =>
             /\ Has(i, "latency")
             /\ Has(i, "text") => EventAt(i, "latency") < EventAt(i, "text")
             /\ Has(i, "text_raised") => EventAt(i, "latency") < EventAt(i, "text_raised")
        /\ IsFound(i) => Has(i, "latency") /\ outcome[i].value[1].latency_ms = "start_to_head"

C14_Witness ==
    \E i \in DOMAIN events :
        /\ IsFound(i) /\ Has(i, "text")
        /\ EventAt(i, "latency") < EventAt(i, "text")

(* C15: the coverage shown to the user is the number of descriptors the    *)
(* scan probed, in Fast and in Deep mode, for every catalog size.           *)
C15_CoverageIsProbed ==
    report.kind = "success" => report.coverage = Len(tasks)


(* C16: in every state of run_search 0 <= len(results) <= completed <=      *)
(* total; completed changes only by +1, in a step that awaits one           *)
(* completion; total does not change once the probes have been created.     *)
C16_Counters ==
    /\ [](Created => /\ 0 <= Len(results) /\ Len(results) <= completed
                     /\ completed <= total /\ total = Len(tasks))
    /\ [][/\ completed' # completed =>
               /\ completed' = completed + 1
               /\ Len(awaited') = Len(awaited) + 1
               /\ Len(results') \in {Len(results), Len(results) + 1}
          /\ (Created /\ awaited' # awaited /\ pc' # "raised") =>
               completed' = completed + 1
          /\ Created => total' = total]_vars

C16_Witness ==
    /\ pc = "returned" /\ total >= 3 /\ completed = total
    /\ 0 < Len(results) /\ Len(results) < completed

\* the rules fetch knows
KnownRules == {"status_code", "message", "response_url"}

(* C17: a descriptor whose errorType is missing or is not one of the three *)
(* rules is never Found, whatever the site answers; its task returns        *)
(* normally, its completion is counted and the scan does not raise.         *)
C17_UnknownRuleNeverFound ==
    \A i \in DOMAIN tpc :
        (sites_data[tasks[i]].errorType \notin KnownRules
           /\ ~UrlRaises(sites_data[tasks[i]]))
        => /\ ~IsFound(i) /\ outcome[i].kind # "raised"
           /\ \A k \in DOMAIN results : results[k].site # tasks[i]
           /\ i \in Consumed =>
                /\ pc # "raised" /\ report.kind # "error"
                /\ completed = Len(awaited)
                /\ progress[Len(progress)].num = completed

C17_Witness ==
    \E i \in DOMAIN tpc :
        /\ sites_data[tasks[i]].errorType \in {None, "unknown"}
        /\ Has(i, "rule") /\ net[tasks[i]].status = 200
        /\ net[tasks[i]].redirect = "same"
        /\ pc = "returned" /\ completed = 1 /\ results = <<>>

(* C18: a message descriptor without errorMsg is never Found, whatever the *)
(* body; the error of the rule is swallowed in fetch, the task returns      *)
(* None, its completion is counted and the scan does not raise.             *)
C18_MissingMsgNeverFound ==
    \A i \in DOMAIN tpc :
        (sites_data[tasks[i]].errorType = "message" /\ ~sites_data[tasks[i]].hasMsg
           /\ ~UrlRaises(sites_data[tasks[i]]))
        => /\ ~IsFound(i) /\ outcome[i].kind # "raised"
           /\ \A k \in DOMAIN results : results[k].site # tasks[i]
           /\ Has(i, "text") => outcome[i] = Returned(<<>>) /\ Has(i, "except")
           /\ i \in Consumed =>
                /\ pc # "raised" /\ report.kind # "error"
                /\ completed = Len(awaited)
                /\ progress[Len(progress)].num = completed

C18_Witness ==
    \E i \in DOMAIN tpc :
        /\ sites_data[tasks[i]].errorType = "message" /\ ~sites_data[tasks[i]].hasMsg
        /\ Has(i, "rule_raised") /\ net[tasks[i]].text = <<"Hello">>
        /\ pc = "returned" /\ completed = 1 /\ results = <<>>

====
